---------------------------- MODULE Spec2Model ----------------------------
(***************************************************************************)
(* SRGAN/train.py: main() as a state machine.  One process runs main()     *)
(* from construction to normal exit, to an uncaught exception or to an      *)
(* external kill; the checkpoint file outlives the process and the next    *)
(* process may be configured to resume from it.                            *)
(*                                                                         *)
(* Tensors are abstracted: a model's parameters are a version number that  *)
(* an optimizer step advances, a gradient buffer is the set of backward    *)
(* passes accumulated in it, a loss is the set of its criterion terms, a   *)
(* learning rate is an integer number of hundredths of the configured one. *)
(***************************************************************************)
EXTENDS Integers, Sequences, FiniteSets, TLC

\* ------------------------------------------------------------- bounds
MaxEpochs     == 4      \* configured `epochs` ranges over 1..MaxEpochs
MaxStartEpoch == 3      \* configured `start_epoch` ranges over 1..MaxStartEpoch
MaxBatches    == 2      \* batches the loader yields per epoch: 0..MaxBatches
MaxRuns       == 3      \* processes started one after another
MaxBatchSize  == 2      \* `batch_size`: images in a full batch

\* ---------------------------------------------------- program constants
LrUnits      == 100     \* the configured lr (1e-4), in hundredths of itself
ShrinkDenom  == 10      \* the factor 0.1 of adjust_learning_rate, as 1/10

VARIABLES
    run,              \* number of the process running main()
    pc,               \* position of the process in main()
    err,              \* the exception that ended the process, or "none"
    crash_at,         \* the position at which the process was killed, or "none"
    epochs,           \* global `epochs`
    start_epoch_cfg,  \* the value line 29 gives `start_epoch`
    loader_len,       \* len(train_loader): batches per epoch
    last_size,        \* images in the last batch of an epoch (the remainder)
    checkpoint,       \* global `checkpoint`: none, a path, or the loaded record
    start_epoch,      \* global `start_epoch`
    epoch,            \* loop variable of line 114 (0: loop not entered)
    i,                \* batches of the current epoch already taken from the loader
    bound,            \* the locals of line 192 are bound
    params,           \* parameters of generator / discriminator
    grads,            \* .grad buffers of generator / discriminator
    optimizer_g,      \* state of optimizer_g
    optimizer_d,      \* state of optimizer_d
    adversarial_loss, \* local `adversarial_loss`: set of criterion terms
    perceptual_loss,  \* local `perceptual_loss`: set of criterion terms
    meters,           \* locals losses_c, losses_a, losses_d
    file,             \* results/checkpoint_SRGAN.pth on storage
    obs               \* observations of the run (history, no effect on control)

cfgVars   == <<epochs, start_epoch_cfg, loader_len, last_size>>
lossVars  == <<adversarial_loss, perceptual_loss>>
netVars   == <<params, grads, optimizer_g, optimizer_d>>
vars      == <<run, pc, err, crash_at, epochs, start_epoch_cfg, loader_len,
               last_size, checkpoint, start_epoch, epoch, i, bound, params,
               grads, optimizer_g, optimizer_d, adversarial_loss,
               perceptual_loss, meters, file, obs>>

Models == {"generator", "discriminator"}

\* ------------------------------------------------------------ values
NoCheckpoint   == [kind |-> "none"]
CheckpointPath == [kind |-> "path"]
Loaded(d)      == [kind |-> "record", data |-> d]

Absent         == [kind |-> "absent"]
Partial        == [kind |-> "partial"]
Stored(d)      == [kind |-> "record", data |-> d]

NoLoss         == {}

\* torch.optim.Adam(params=..., lr=lr): param group lr and the step count
NewOptimizer == [lr |-> LrUnits, steps |-> 0]

\* lines 63, 64: the parameters each optimizer was constructed over
OptimizerParams_g_AllModels == {"generator", "discriminator"}
OptimizerParams_g == {"generator"}
OptimizerParams_d == {"discriminator"}

\* adjust_learning_rate(optimizer, shrink_factor) of utils
adjust_learning_rate(opt) == [opt EXCEPT !.lr = opt.lr \div ShrinkDenom]

\* -------------------------------------------------- Python dict literal
\* {k1: v1, k2: v2, ...}: the keys of the pairs, a repeated key keeps the
\* value of its last occurrence.
Keys(pairs) == {pairs[n][1] : n \in 1..Len(pairs)}
LastIndex(pairs, k) ==
    CHOOSE n \in 1..Len(pairs) :
        /\ pairs[n][1] = k
        /\ \A m \in (n+1)..Len(pairs) : pairs[m][1] # k
DictLiteral(pairs) == [k \in Keys(pairs) |-> pairs[LastIndex(pairs, k)][2]]

\* the dict handed to torch.save
CheckpointDict_StartEpoch ==
    DictLiteral(<< <<"epoch", start_epoch>>,
                   <<"generator", params["generator"]>>,
                   <<"discriminator", params["discriminator"]>>,
                   <<"optimizer_g", optimizer_g>>,
                   <<"optimizer_g", optimizer_g>> >>)
CheckpointDict ==
    DictLiteral(<< <<"epoch", epoch>>,
                   <<"generator", params["generator"]>>,
                   <<"discriminator", params["discriminator"]>>,
                   <<"optimizer_g", optimizer_g>>,
                   <<"optimizer_g", optimizer_g>> >>)

HasKey(d, k) == k \in DOMAIN d

\* ------------------------------------------------------ autograd
\* one criterion term: criterion(net(input), target)
Term(net, input, detached, target) ==
    [net |-> net, input |-> input, detached |-> detached, target |-> target]

\* models whose parameters are leaves of the graph of a term
TermGraph(t) ==
    (IF t.net = "discriminator" THEN {"discriminator"} ELSE {})
    \cup (IF t.input = "sr" /\ ~t.detached THEN {"generator"} ELSE {})
LossGraph(loss) == UNION {TermGraph(t) : t \in loss}

ContentLoss       == {Term("vgg", "sr", FALSE, "hr_in_vgg_space")}
GeneratorAdvLoss  == {Term("discriminator", "sr", FALSE, "ones")}
DiscriminatorLoss_Swapped == {Term("discriminator", "sr", TRUE, "ones"),
                              Term("discriminator", "hr", FALSE, "zeros")}
DiscriminatorLoss == {Term("discriminator", "sr", TRUE, "zeros"),
                      Term("discriminator", "hr", FALSE, "ones")}

ZeroGrad_Skipped(ps, g) == g
ZeroGrad(ps, g)        == [m \in Models |-> IF m \in ps THEN {} ELSE g[m]]
Backward(loss, tag, g) ==
    [m \in Models |-> IF m \in LossGraph(loss) THEN g[m] \cup {tag} ELSE g[m]]
StepParams(ps, p, g)   ==
    [m \in Models |-> IF m \in ps /\ g[m] # {} THEN p[m] + 1 ELSE p[m]]

\* ------------------------------------------------------ loss bookkeeping
\* <loss>.item() on the current batch: the value of that loss on that batch
Item(loss) == [loss |-> loss, epoch |-> epoch, batch |-> i]

\* lr_imgs.size(0), hr_imgs.size(0): images in batch j of an epoch
BatchSize(j) == IF j = loader_len THEN last_size ELSE MaxBatchSize

\* AverageMeter of utils: `sum` is kept as the formal sum of the terms val * n
\* in the order they were added, `count` is the sum of the n; avg = sum / count
NewMeter == [sum |-> <<>>, count |-> 0]
Update(m, val, n) == [sum |-> Append(m.sum, <<val, n>>), count |-> m.count + n]

FreshMeters == [c |-> NewMeter, a |-> NewMeter, d |-> NewMeter]

\* lines 123-125: the three meters are constructed anew in every epoch
MetersAtEpochBegin_Kept(m) == m
MetersAtEpochBegin(m) == FreshMeters

\* ------------------------------------------------------ epoch loop
\* line 116: int(epochs / 2)
DecayEpoch_RoundedUp(e) == (e + 1) \div 2
DecayEpoch(e) == e \div 2
\* line 116: epoch == int(epochs / 2)
IsDecayEpoch_AtOrAfter(ep, e) == ep >= DecayEpoch(e)
IsDecayEpoch(ep, e) == ep = DecayEpoch(e)
\* line 114: the last value of range(start_epoch, epochs + 1)
LastEpoch_Exclusive(e) == e - 1
LastEpoch(e)  == e
NextEpoch     == IF epoch = 0 THEN start_epoch ELSE epoch + 1

\* ------------------------------------------------------ observations
NewObs(f, old) ==
    [batches |-> 0, steps_g |-> 0, steps_d |-> 0, decays_g |-> 0, decays_d |-> 0,
     decay_at |-> {}, entered |-> <<>>, in_epoch |-> 0, saves |-> 0,
     log |-> [epoch |-> 0], ops |-> <<>>, writes |-> <<>>,
     file_at_start |-> f,
     saved |-> old]
NoSnapshot == [epoch |-> 0]
Snapshot ==
    [epoch |-> epoch,
     generator |-> params["generator"],
     discriminator |-> params["discriminator"],
     optimizer_g |-> optimizer_g,
     optimizer_d |-> optimizer_d]

LoadPcs  == {"if_checkpoint", "torch_load", "load_epoch", "load_generator",
             "load_discriminator", "load_optimizer_g", "load_optimizer_d"}
BatchPcs == {"g_forward", "g_zero_grad", "g_backward", "g_step", "g_record",
             "d_forward", "d_zero_grad", "d_backward", "d_step", "d_record"}
EpochPcs == {"for_epoch", "epoch_begin", "for_batch", "del_locals", "log_epoch",
             "save_open", "save_write"}
RunningPcs == LoadPcs \cup {"make_loader"} \cup EpochPcs \cup BatchPcs
EndPcs   == {"done", "error", "crashed"}

\* lines 136-189: the statements of the batch loop body, in source order
BatchBody_DiscriminatorFirst ==
    <<"d_forward", "d_zero_grad", "d_backward", "d_step", "d_record",
      "g_forward", "g_zero_grad", "g_backward", "g_step", "g_record">>
BatchBody ==
    <<"g_forward", "g_zero_grad", "g_backward", "g_step", "g_record",
      "d_forward", "d_zero_grad", "d_backward", "d_step", "d_record">>
IndexOf(p)   == CHOOSE n \in 1..Len(BatchBody) : BatchBody[n] = p
FirstInBatch == BatchBody[1]
\* the statement after p; after the last one the loop takes the next batch
After(p) ==
    IF IndexOf(p) = Len(BatchBody) THEN "for_batch" ELSE BatchBody[IndexOf(p) + 1]

\* ------------------------------------------------------ construction
\* lines 29-31 and 51-83: module globals, models, optimizers, SRResNet weights
Constructed(ck) ==
    /\ pc' = "if_checkpoint"
    /\ err' = "none"
    /\ crash_at' = "none"
    /\ checkpoint' = ck
    /\ start_epoch' = start_epoch_cfg
    /\ epoch' = 0
    /\ i' = 0
    /\ bound' = FALSE
    /\ params' = [m \in Models |-> 0]
    /\ grads' = [m \in Models |-> {}]
    /\ optimizer_g' = NewOptimizer
    /\ optimizer_d' = NewOptimizer
    /\ adversarial_loss' = NoLoss
    /\ perceptual_loss' = NoLoss
    /\ meters' = FreshMeters

Init ==
    /\ run = 1
    /\ pc = "if_checkpoint"
    /\ err = "none"
    /\ crash_at = "none"
    /\ epochs \in 1..MaxEpochs
    /\ start_epoch_cfg \in 1..MaxStartEpoch
    /\ loader_len \in 0..MaxBatches
    /\ last_size \in 1..MaxBatchSize
    /\ checkpoint \in {NoCheckpoint, CheckpointPath}
    /\ start_epoch = start_epoch_cfg
    /\ epoch = 0
    /\ i = 0
    /\ bound = FALSE
    /\ params = [m \in Models |-> 0]
    /\ grads = [m \in Models |-> {}]
    /\ optimizer_g = NewOptimizer
    /\ optimizer_d = NewOptimizer
    /\ adversarial_loss = NoLoss
    /\ perceptual_loss = NoLoss
    /\ meters = FreshMeters
    /\ file = Absent
    /\ obs = NewObs(Absent, NoSnapshot)

\* a new process runs main() after the previous one ended
StartRun ==
    /\ pc \in EndPcs
    /\ run < MaxRuns
    /\ run' = run + 1
    /\ \E ck \in {NoCheckpoint, CheckpointPath} : Constructed(ck)
    /\ obs' = NewObs(file, obs.saved)
    /\ UNCHANGED <<cfgVars, file>>

\* the process is killed from outside
Crash ==
    /\ pc \in RunningPcs
    /\ pc' = "crashed"
    /\ crash_at' = pc
    /\ UNCHANGED <<run, err, cfgVars, checkpoint, start_epoch, epoch, i, bound,
                   netVars, lossVars, file, obs>>
    /\ UNCHANGED meters

\* an exception nobody catches ends the process
Raise(kind) ==
    /\ pc' = "error"
    /\ err' = kind

\* where a failed checkpoint load leaves main(): nothing catches it
OnLoadFailure_Swallowed(kind) ==
    /\ pc' = "make_loader"
    /\ err' = kind
OnLoadFailure(kind) == Raise(kind)


\* ------------------------------------------------------ checkpoint load
\* line 85: if checkpoint is not None
IfCheckpoint ==
    /\ pc = "if_checkpoint"
    /\ pc' = IF checkpoint = NoCheckpoint THEN "make_loader" ELSE "torch_load"
    /\ UNCHANGED <<run, err, crash_at, cfgVars, checkpoint, start_epoch, epoch,
                   i, bound, netVars, lossVars, file, obs>>
    /\ UNCHANGED meters

\* line 86: checkpoint = torch.load(checkpoint)
TorchLoad ==
    /\ pc = "torch_load"
    /\ IF file.kind = "record"
         THEN /\ checkpoint' = Loaded(file.data)
              /\ pc' = "load_epoch"
              /\ UNCHANGED err
         ELSE /\ OnLoadFailure(IF file.kind = "absent" THEN "FileNotFoundError"
                                                       ELSE "UnpicklingError")
              /\ UNCHANGED checkpoint
    /\ UNCHANGED <<run, crash_at, cfgVars, start_epoch, epoch, i, bound,
                   netVars, lossVars, file, obs>>
    /\ UNCHANGED meters

\* line 87: start_epoch = checkpoint['epoch'] + 1
LoadEpoch ==
    /\ pc = "load_epoch"
    /\ IF HasKey(checkpoint.data, "epoch")
         THEN /\ start_epoch' = checkpoint.data["epoch"] + 1
              /\ pc' = "load_generator"
              /\ UNCHANGED err
         ELSE /\ OnLoadFailure("KeyError")
              /\ UNCHANGED start_epoch
    /\ UNCHANGED <<run, crash_at, cfgVars, checkpoint, epoch, i, bound,
                   netVars, lossVars, file, obs>>
    /\ UNCHANGED meters

\* lines 88, 89: <model>.load_state_dict(checkpoint['<model>'])
LoadModel(at, m, next) ==
    /\ pc = at
    /\ IF HasKey(checkpoint.data, m)
         THEN /\ params' = [params EXCEPT ![m] = checkpoint.data[m]]
              /\ pc' = next
              /\ UNCHANGED err
         ELSE /\ OnLoadFailure("KeyError")
              /\ UNCHANGED params
    /\ UNCHANGED <<run, crash_at, cfgVars, checkpoint, start_epoch, epoch, i,
                   bound, grads, optimizer_g, optimizer_d, lossVars, file, obs>>
    /\ UNCHANGED meters

LoadGenerator     == LoadModel("load_generator", "generator", "load_discriminator")
LoadDiscriminator == LoadModel("load_discriminator", "discriminator", "load_optimizer_g")

\* line 90: optimizer_g.load_state_dict(checkpoint['optimizer_g'])
LoadOptimizerG ==
    /\ pc = "load_optimizer_g"
    /\ IF HasKey(checkpoint.data, "optimizer_g")
         THEN /\ optimizer_g' = checkpoint.data["optimizer_g"]
              /\ pc' = "load_optimizer_d"
              /\ UNCHANGED err
         ELSE /\ OnLoadFailure("KeyError")
              /\ UNCHANGED optimizer_g
    /\ UNCHANGED <<run, crash_at, cfgVars, checkpoint, start_epoch, epoch, i,
                   bound, params, grads, optimizer_d, lossVars, file, obs>>
    /\ UNCHANGED meters

\* line 91: optimizer_d.load_state_dict(checkpoint['optimizer_d'])
LoadOptimizerD ==
    /\ pc = "load_optimizer_d"
    /\ IF HasKey(checkpoint.data, "optimizer_d")
         THEN /\ optimizer_d' = checkpoint.data["optimizer_d"]
              /\ pc' = "make_loader"
              /\ UNCHANGED err
         ELSE /\ OnLoadFailure("KeyError")
              /\ UNCHANGED optimizer_d
    /\ UNCHANGED <<run, crash_at, cfgVars, checkpoint, start_epoch, epoch, i,
                   bound, params, grads, optimizer_g, lossVars, file, obs>>
    /\ UNCHANGED meters

\* lines 93-112: data parallel wrapping, dataset, loader, logger
MakeLoader ==
    /\ pc = "make_loader"
    /\ pc' = "for_epoch"
    /\ UNCHANGED <<run, err, crash_at, cfgVars, checkpoint, start_epoch, epoch,
                   i, bound, netVars, lossVars, file, obs>>
    /\ UNCHANGED meters

\* ------------------------------------------------------ epoch loop
\* line 114: for epoch in range(start_epoch, epochs + 1)
ForEpoch ==
    /\ pc = "for_epoch"
    /\ IF NextEpoch <= LastEpoch(epochs)
         THEN /\ epoch' = NextEpoch
              /\ pc' = "epoch_begin"
              /\ obs' = [obs EXCEPT !.entered = Append(@, NextEpoch),
                                    !.in_epoch = 0]
         ELSE /\ pc' = "done"
              /\ UNCHANGED <<epoch, obs>>
    /\ UNCHANGED <<run, err, crash_at, cfgVars, checkpoint, start_epoch, i,
                   bound, netVars, lossVars, file>>
    /\ UNCHANGED meters

\* lines 116-125: learning-rate decay at the midpoint, train mode, new meters
EpochBegin ==
    /\ pc = "epoch_begin"
    /\ IF IsDecayEpoch(epoch, epochs)
         THEN /\ optimizer_g' = adjust_learning_rate(optimizer_g)
              /\ optimizer_d' = adjust_learning_rate(optimizer_d)
              /\ obs' = [obs EXCEPT !.decays_g = @ + 1, !.decays_d = @ + 1,
                                    !.decay_at = @ \cup {<<epoch, obs.in_epoch>>}]
         ELSE UNCHANGED <<optimizer_g, optimizer_d, obs>>
    /\ meters' = MetersAtEpochBegin(meters)
    /\ i' = 0
    /\ pc' = "for_batch"
    /\ UNCHANGED <<run, err, crash_at, cfgVars, checkpoint, start_epoch, epoch,
                   bound, params, grads, lossVars, file>>

\* lines 128-132: for i, (lr_imgs, hr_imgs) in enumerate(train_loader)
ForBatch ==
    /\ pc = "for_batch"
    /\ IF i < loader_len
         THEN /\ i' = i + 1
              /\ bound' = TRUE
              /\ obs' = [obs EXCEPT !.in_epoch = @ + 1, !.ops = <<>>]
              /\ pc' = FirstInBatch
         ELSE /\ pc' = "del_locals"
              /\ UNCHANGED <<i, bound, obs>>
    /\ UNCHANGED <<run, err, crash_at, cfgVars, checkpoint, start_epoch, epoch,
                   netVars, lossVars, file>>
    /\ UNCHANGED meters

\* the backward pass of phase ph on the current batch
Tag(ph) == <<ph, epoch, i>>

\* lines 136-154: generator forward, content loss, adversarial loss, sum
GForward ==
    /\ pc = "g_forward"
    /\ adversarial_loss' = GeneratorAdvLoss
    /\ perceptual_loss' = ContentLoss \cup GeneratorAdvLoss
    /\ obs' = [obs EXCEPT !.ops = Append(Append(obs.ops, "g_forward"), "perceptual_loss")]
    /\ pc' = After("g_forward")
    /\ UNCHANGED <<run, err, crash_at, cfgVars, checkpoint, start_epoch, epoch,
                   i, bound, netVars, file>>
    /\ UNCHANGED meters

\* line 157: optimizer_g.zero_grad()
GZeroGrad ==
    /\ pc = "g_zero_grad"
    /\ grads' = ZeroGrad(OptimizerParams_g, grads)
    /\ obs' = [obs EXCEPT !.ops = Append(obs.ops, "g_zero_grad")]
    /\ pc' = After("g_zero_grad")
    /\ UNCHANGED <<run, err, crash_at, cfgVars, checkpoint, start_epoch, epoch,
                   i, bound, params, optimizer_g, optimizer_d, lossVars, file>>
    /\ UNCHANGED meters

\* line 158: perceptual_loss.backward()
GBackward ==
    /\ pc = "g_backward"
    /\ grads' = Backward(perceptual_loss, Tag("G"), grads)
    /\ obs' = [obs EXCEPT !.ops = Append(obs.ops, "g_backward")]
    /\ pc' = After("g_backward")
    /\ UNCHANGED <<run, err, crash_at, cfgVars, checkpoint, start_epoch, epoch,
                   i, bound, params, optimizer_g, optimizer_d, lossVars, file>>
    /\ UNCHANGED meters

\* line 161: optimizer_g.step()
GStep ==
    /\ pc = "g_step"
    /\ params' = StepParams(OptimizerParams_g, params, grads)
    /\ optimizer_g' = [optimizer_g EXCEPT !.steps = @ + 1]
    /\ obs' = [obs EXCEPT !.ops = Append(@, "g_step"), !.steps_g = @ + 1]
    /\ pc' = After("g_step")
    /\ UNCHANGED <<run, err, crash_at, cfgVars, checkpoint, start_epoch, epoch,
                   i, bound, grads, optimizer_d, lossVars, file>>
    /\ UNCHANGED meters

\* lines 164-165: losses_c.update, losses_a.update
GRecord ==
    /\ pc = "g_record"
    /\ meters' = [meters EXCEPT
                     !.c = Update(@, Item(ContentLoss), BatchSize(i)),
                     !.a = Update(@, Item(adversarial_loss), BatchSize(i))]
    /\ pc' = After("g_record")
    /\ UNCHANGED <<run, err, crash_at, cfgVars, checkpoint, start_epoch, epoch,
                   i, bound, netVars, lossVars, file, obs>>

\* lines 169-175: discriminator on hr_imgs and on sr_imgs.detach(), the loss
DForward ==
    /\ pc = "d_forward"
    /\ adversarial_loss' = DiscriminatorLoss
    /\ obs' = [obs EXCEPT !.ops = Append(obs.ops, "d_forward")]
    /\ pc' = After("d_forward")
    /\ UNCHANGED <<run, err, crash_at, cfgVars, checkpoint, start_epoch, epoch,
                   i, bound, netVars, perceptual_loss, file>>
    /\ UNCHANGED meters

\* line 178: optimizer_d.zero_grad()
DZeroGrad ==
    /\ pc = "d_zero_grad"
    /\ grads' = ZeroGrad(OptimizerParams_d, grads)
    /\ obs' = [obs EXCEPT !.ops = Append(obs.ops, "d_zero_grad")]
    /\ pc' = After("d_zero_grad")
    /\ UNCHANGED <<run, err, crash_at, cfgVars, checkpoint, start_epoch, epoch,
                   i, bound, params, optimizer_g, optimizer_d, lossVars, file>>
    /\ UNCHANGED meters

\* line 179: adversarial_loss.backward()
DBackward ==
    /\ pc = "d_backward"
    /\ grads' = Backward(adversarial_loss, Tag("D"), grads)
    /\ obs' = [obs EXCEPT !.ops = Append(obs.ops, "d_backward")]
    /\ pc' = After("d_backward")
    /\ UNCHANGED <<run, err, crash_at, cfgVars, checkpoint, start_epoch, epoch,
                   i, bound, params, optimizer_g, optimizer_d, lossVars, file>>
    /\ UNCHANGED meters

\* line 182: optimizer_d.step()
DStep ==
    /\ pc = "d_step"
    /\ params' = StepParams(OptimizerParams_d, params, grads)
    /\ optimizer_d' = [optimizer_d EXCEPT !.steps = @ + 1]
    /\ obs' = [obs EXCEPT !.ops = Append(@, "d_step"), !.steps_d = @ + 1]
    /\ pc' = After("d_step")
    /\ UNCHANGED <<run, err, crash_at, cfgVars, checkpoint, start_epoch, epoch,
                   i, bound, grads, optimizer_g, lossVars, file>>
    /\ UNCHANGED meters

\* lines 185-189: losses_d.update, progress line; the batch is done
DRecord ==
    /\ pc = "d_record"
    /\ meters' = [meters EXCEPT
                     !.d = Update(@, Item(adversarial_loss), BatchSize(i))]
    /\ obs' = [obs EXCEPT !.batches = @ + 1]
    /\ pc' = After("d_record")
    /\ UNCHANGED <<run, err, crash_at, cfgVars, checkpoint, start_epoch, epoch,
                   i, bound, netVars, lossVars, file>>

\* ------------------------------------------------------ end of epoch
\* line 192: del lr_imgs, hr_imgs, sr_imgs, ...
DelLocals ==
    /\ pc = "del_locals"
    /\ IF bound
         THEN /\ bound' = FALSE
              /\ pc' = "log_epoch"
              /\ UNCHANGED err
         ELSE /\ Raise("UnboundLocalError")
              /\ UNCHANGED bound
    /\ UNCHANGED <<run, crash_at, cfgVars, checkpoint, start_epoch, epoch, i,
                   netVars, lossVars, file, obs>>
    /\ UNCHANGED meters

\* lines 195-197: logger.info(...)
LogEpoch ==
    /\ pc = "log_epoch"
    /\ obs' = [obs EXCEPT !.log = [epoch |-> epoch, c |-> meters.c,
                                   a |-> meters.a, d |-> meters.d]]
    /\ pc' = "save_open"
    /\ UNCHANGED <<run, err, crash_at, cfgVars, checkpoint, start_epoch, epoch,
                   i, bound, netVars, lossVars, file>>
    /\ UNCHANGED meters

\* lines 200-206, torch.save(dict, path): the file at the final path is
\* opened for writing, which truncates it ...
SaveOpen ==
    /\ pc = "save_open"
    /\ file' = Partial
    /\ pc' = "save_write"
    /\ UNCHANGED <<run, err, crash_at, cfgVars, checkpoint, start_epoch, epoch,
                   i, bound, netVars, lossVars, obs>>
    /\ UNCHANGED meters

\* ... and the record is written into it and the file closed
SaveWrite ==
    /\ pc = "save_write"
    /\ file' = Stored(CheckpointDict)
    /\ obs' = [obs EXCEPT !.saves = @ + 1, !.saved = Snapshot,
                          !.writes = Append(@, [stored |-> CheckpointDict["epoch"],
                                                batches |-> obs.in_epoch,
                                                logged |-> obs.log.epoch])]
    /\ pc' = "for_epoch"
    /\ UNCHANGED <<run, err, crash_at, cfgVars, checkpoint, start_epoch, epoch,
                   i, bound, netVars, lossVars>>
    /\ UNCHANGED meters

Next ==
    \/ StartRun \/ Crash
    \/ IfCheckpoint \/ TorchLoad \/ LoadEpoch \/ LoadGenerator
    \/ LoadDiscriminator \/ LoadOptimizerG \/ LoadOptimizerD \/ MakeLoader
    \/ ForEpoch \/ EpochBegin \/ ForBatch
    \/ GForward \/ GZeroGrad \/ GBackward \/ GStep \/ GRecord
    \/ DForward \/ DZeroGrad \/ DBackward \/ DStep \/ DRecord
    \/ DelLocals \/ LogEpoch \/ SaveOpen \/ SaveWrite

Spec == Init /\ [][Next]_vars

TypeOK ==
    /\ run \in 1..MaxRuns
    /\ pc \in RunningPcs \cup EndPcs
    /\ epoch \in 0..MaxEpochs
    /\ i \in 0..MaxBatches
    /\ file.kind \in {"absent", "partial", "record"}
    /\ checkpoint.kind \in {"none", "path", "record"}

\* ------------------------------------------------------ properties
\* the position of the process, also after it was killed
Position == IF pc = "crashed" THEN crash_at ELSE pc

CheckpointKeys ==
    {"epoch", "generator", "discriminator", "optimizer_g", "optimizer_d"}

\* C1: a run that loaded the record of a completed save finishes the load
\* without an exception, with parameters and optimizer states equal to those
\* at the moment of the save, and with start_epoch one past the saved epoch.
C1_RoundTrip ==
    checkpoint.kind = "record" =>
        /\ err = "none"
        /\ pc = "make_loader" =>
              /\ params["generator"] = obs.saved.generator
              /\ params["discriminator"] = obs.saved.discriminator
              /\ optimizer_g = obs.saved.optimizer_g
              /\ optimizer_d = obs.saved.optimizer_d
              /\ start_epoch = obs.saved.epoch + 1

\* C2: every record on storage holds the five components epoch, generator,
\* discriminator, optimizer_g, optimizer_d, each with the value it had at the
\* epoch boundary at which the record was written.
C2_RecordComplete ==
    file.kind = "record" =>
        /\ DOMAIN file.data = CheckpointKeys
        /\ \A k \in CheckpointKeys : file.data[k] = obs.saved[k]

\* C3: when the process is killed during the end-of-epoch save, the file on
\* storage is not a partially written record.
C3_SaveAtomic ==
    (pc = "crashed" /\ crash_at \in {"save_open", "save_write"}) =>
        file.kind # "partial"

\* C4: a run whose checkpoint load failed (file missing, record unparseable,
\* component absent) has ended with the exception, has processed no batch,
\* taken no optimizer step, entered no epoch and left the file as it found it.
LoadErrors == {"FileNotFoundError", "UnpicklingError", "KeyError"}
C4_LoadFailureAborts ==
    err \in LoadErrors =>
        /\ pc = "error"
        /\ epoch = 0
        /\ obs.entered = <<>>
        /\ obs.batches = 0
        /\ obs.steps_g = 0
        /\ obs.steps_d = 0
        /\ obs.saves = 0
        /\ file = obs.file_at_start

\* C4 witness: the load of a stored record failed on a missing component
\* after part of the record had been loaded.
C4_Witness ==
    /\ pc = "error"
    /\ err = "KeyError"
    /\ checkpoint.kind = "record"
    /\ file.kind = "record"
    /\ start_epoch = file.data["epoch"] + 1

\* C5 as stated: a run that exits normally has applied the decay exactly
\* once to each optimizer, whatever start_epoch and epochs are.
C5_DecayExactlyOnce ==
    pc = "done" => (obs.decays_g = 1 /\ obs.decays_d = 1)

\* the loop of this run has passed the decay test of the midpoint epoch
PassedMidpoint ==
    /\ epoch # 0
    /\ start_epoch <= epochs \div 2
    /\ \/ epoch > epochs \div 2
       \/ epoch = epochs \div 2 /\ Position # "epoch_begin"

\* C5 amended: in a run the decay is applied to both optimizers together, at
\* most once, only on entering epoch floor(epochs/2) before any batch of it;
\* it has been applied exactly once when the loop started at or before that
\* epoch and has passed it, and not at all otherwise (start_epoch beyond the
\* midpoint, or epochs = 1 whose midpoint 0 is never visited).
C5_DecayAtMidpointOnly ==
    /\ obs.decays_g = obs.decays_d
    /\ obs.decay_at \subseteq {<<epochs \div 2, 0>>}
    /\ obs.decays_g = (IF PassedMidpoint THEN 1 ELSE 0)
    /\ optimizer_d.lr = (IF PassedMidpoint THEN LrUnits \div ShrinkDenom ELSE LrUnits)

\* C5 witness: a run exited normally after decaying both optimizers once at
\* the midpoint, with batches processed before and after it.
C5_Witness ==
    /\ pc = "done"
    /\ epochs = 4
    /\ start_epoch = 1
    /\ loader_len >= 1
    /\ obs.decays_g = 1
    /\ obs.decays_d = 1
    /\ obs.decay_at = {<<2, 0>>}

C7_EndToEndCounts ==
    (/\ pc = "done"
     /\ checkpoint = NoCheckpoint
     /\ start_epoch = 1
     /\ loader_len >= 1) =>
        /\ obs.batches = loader_len * epochs
        /\ obs.steps_g = loader_len * epochs
        /\ obs.steps_d = loader_len * epochs
        /\ obs.saves = epochs
        /\ file.kind = "record"
        /\ file.data["epoch"] = epochs

\* C7 witness: the toy scenario, 2 batches per epoch and 1 epoch.
C7_Witness ==
    /\ pc = "done"
    /\ checkpoint = NoCheckpoint
    /\ start_epoch = 1
    /\ loader_len = 2
    /\ epochs = 1
    /\ obs.batches = 2
    /\ obs.steps_g = 2
    /\ obs.steps_d = 2
    /\ file.kind = "record"
    /\ file.data["epoch"] = 1

\* the epochs s, s+1, ..., e in increasing order
EpochRange(s, e) == [n \in 1..(IF e >= s THEN e - s + 1 ELSE 0) |-> s + n - 1]

\* C8: a run whose checkpoint load did not fail never ends with an exception;
\* when it exits normally it has entered exactly the epochs start_epoch ..
\* epochs in increasing order, and when start_epoch > epochs it has processed
\* no batch, taken no step and written no checkpoint.
C8_Termination ==
    /\ err \in {"none"} \cup LoadErrors
    /\ pc = "done" => obs.entered = EpochRange(start_epoch, epochs)
    /\ (pc = "done" /\ start_epoch > epochs) =>
          /\ obs.batches = 0
          /\ obs.steps_g = 0
          /\ obs.steps_d = 0
          /\ obs.saves = 0
          /\ file = obs.file_at_start

\* C9: inside a batch the generator's parameters change only in
\* optimizer_g.step() and the discriminator's only in optimizer_d.step(); so
\* the generator phase leaves the discriminator's parameters and the
\* discriminator phase the generator's parameters as they were.
OwnStepOnly ==
    pc \in BatchPcs =>
        /\ params'["generator"] # params["generator"] => pc = "g_step"
        /\ params'["discriminator"] # params["discriminator"] => pc = "d_step"
C9_ExclusiveOwnership == [][OwnStepOnly]_vars

\* C9 witness: the generator step has been taken while the discriminator,
\* which holds the gradient of the generator-phase backward, is unchanged.
C9_Witness ==
    /\ pc = "g_record"
    /\ <<"G", epoch, i>> \in grads["discriminator"]
    /\ params["generator"] = 1
    /\ params["discriminator"] = 0

\* C10: from the generator-phase loss computation to the generator step the
\* adversarial loss is the criterion on the discriminator's output for the
\* synthetic images against ones and is part of the perceptual loss; from the
\* discriminator-phase loss computation to the end of the batch it is the
\* criterion on the detached synthetic images against zeros plus the
\* criterion on the real images against ones; there is no other term.
C10_LabelPolarity ==
    /\ Position \in {"g_zero_grad", "g_backward", "g_step", "g_record"} =>
          /\ adversarial_loss =
                {[net |-> "discriminator", input |-> "sr", detached |-> FALSE,
                  target |-> "ones"]}
          /\ adversarial_loss \subseteq perceptual_loss
    /\ Position \in {"d_zero_grad", "d_backward", "d_step", "d_record"} =>
          adversarial_loss =
                {[net |-> "discriminator", input |-> "sr", detached |-> TRUE,
                  target |-> "zeros"],
                 [net |-> "discriminator", input |-> "hr", detached |-> FALSE,
                  target |-> "ones"]}
    /\ \A t \in perceptual_loss :
          t.net = "discriminator" => (t.input = "sr" /\ t.target = "ones")

\* C10 witness: the discriminator step of a batch has been taken on the
\* discriminator-phase loss, after the generator step of the same batch.
C10_Witness ==
    /\ pc = "d_record"
    /\ obs.steps_g = 1
    /\ obs.steps_d = 1
    /\ Cardinality(adversarial_loss) = 2
    /\ Cardinality(perceptual_loss) = 2

\* the terms val * n a meter fed with `loss` holds after the first k batches
\* of epoch e: one per batch, weighted by the size of the batch
ExpectedSum(loss, e, k) ==
    [j \in 1..k |-> << [loss |-> loss, epoch |-> e, batch |-> j],
                       IF j = loader_len THEN last_size ELSE MaxBatchSize >>]
ExpectedCount(k) ==
    IF k = 0 THEN 0
    ELSE IF k = loader_len THEN (k - 1) * MaxBatchSize + last_size
    ELSE k * MaxBatchSize
ExpectedMeter(loss, e, k) ==
    [sum |-> ExpectedSum(loss, e, k), count |-> ExpectedCount(k)]

ContentTerms == {[net |-> "vgg", input |-> "sr", detached |-> FALSE,
                  target |-> "hr_in_vgg_space"]}
GeneratorPhaseTerms == {[net |-> "discriminator", input |-> "sr",
                         detached |-> FALSE, target |-> "ones"]}
DiscriminatorPhaseTerms ==
    {[net |-> "discriminator", input |-> "sr", detached |-> TRUE,
      target |-> "zeros"],
     [net |-> "discriminator", input |-> "hr", detached |-> FALSE,
      target |-> "ones"]}

\* C11: the averages logged at the end of an epoch are, for each of the three
\* meters, the sum of that epoch's per-batch values weighted by batch size
\* over the sum of the batch sizes, one term per batch and none from an
\* earlier epoch; losses_c holds the content loss, losses_a the
\* generator-phase adversarial loss, losses_d the discriminator-phase loss;
\* between batches each meter holds exactly the batches of the epoch so far.
C11_EpochAverages ==
    /\ obs.log.epoch # 0 =>
          /\ obs.log.c = ExpectedMeter(ContentTerms, obs.log.epoch, loader_len)
          /\ obs.log.a = ExpectedMeter(GeneratorPhaseTerms, obs.log.epoch, loader_len)
          /\ obs.log.d = ExpectedMeter(DiscriminatorPhaseTerms, obs.log.epoch, loader_len)
    /\ Position = "for_batch" =>
          /\ meters.c = ExpectedMeter(ContentTerms, epoch, i)
          /\ meters.a = ExpectedMeter(GeneratorPhaseTerms, epoch, i)
          /\ meters.d = ExpectedMeter(DiscriminatorPhaseTerms, epoch, i)

\* C11 witness: the averages of the second epoch of a run have been logged,
\* over two batches of different sizes.
C11_Witness ==
    /\ pc = "save_open"
    /\ Len(obs.entered) = 2
    /\ obs.log.epoch = epoch
    /\ loader_len = 2
    /\ last_size = 1
    /\ obs.log.a.count = 3
    /\ Len(obs.log.d.sum) = 2

\* the operations of one batch in the order the claim gives them
ExpectedOps ==
    <<"g_forward", "perceptual_loss", "g_zero_grad", "g_backward", "g_step",
      "d_forward", "d_zero_grad", "d_backward", "d_step">>

\* C12: the operations executed so far in the current batch are a prefix of
\* generator forward, perceptual loss, generator zero-grad, backward, step,
\* discriminator forward, zero-grad, backward, step; a finished batch has
\* executed all nine; the discriminator step count never exceeds the generator
\* step count and lags it by at most one, and both equal the number of
\* finished batches between batches.
C12_StrictSequencing ==
    /\ Len(obs.ops) <= Len(ExpectedOps)
    /\ obs.ops = SubSeq(ExpectedOps, 1, Len(obs.ops))
    /\ (Position = "for_batch" /\ i > 0) => obs.ops = ExpectedOps
    /\ obs.steps_d <= obs.steps_g
    /\ obs.steps_g <= obs.steps_d + 1
    /\ obs.batches <= obs.steps_d
    /\ obs.steps_g <= obs.batches + 1
    /\ Position = "for_batch" =>
          (obs.steps_g = obs.batches /\ obs.steps_d = obs.batches)

\* C12 witness: the second batch of an epoch is between its generator step
\* and its discriminator step.
C12_Witness ==
    /\ pc = "d_backward"
    /\ i = 2
    /\ obs.steps_g = obs.steps_d + 1
    /\ obs.steps_d >= 1
    /\ Len(obs.ops) = 7

\* C13: the n-th completed write of a run stores the n-th epoch the run
\* entered, start_epoch + n - 1, and was made after all batches and the log
\* line of that epoch; every entered epoch but the one in progress has its
\* write; the file holds the record of the last write and nothing else, and
\* it is being rewritten only between the log line and the next epoch.
C13_OneWritePerEpoch ==
    /\ Len(obs.writes) = obs.saves
    /\ \A n \in 1..Len(obs.writes) :
          /\ obs.writes[n].stored = start_epoch + n - 1
          /\ obs.writes[n].stored = obs.entered[n]
          /\ obs.writes[n].batches = loader_len
          /\ obs.writes[n].logged = obs.writes[n].stored
    /\ Len(obs.writes) <= Len(obs.entered)
    /\ Len(obs.entered) <= Len(obs.writes) + 1
    /\ (Position = "for_epoch" \/ pc = "done") => Len(obs.writes) = Len(obs.entered)
    /\ Position \in BatchPcs \cup {"epoch_begin", "for_batch", "del_locals", "log_epoch"}
          => Len(obs.entered) = Len(obs.writes) + 1
    /\ (obs.saves > 0 /\ file.kind = "record") =>
          file.data["epoch"] = obs.writes[Len(obs.writes)].stored
    /\ (obs.saves > 0 /\ file.kind # "record") => Position = "save_write"
    /\ obs.saves = 0 => (file = obs.file_at_start \/ Position = "save_write")
    /\ Position = "save_write" => (obs.in_epoch = loader_len /\ obs.log.epoch = epoch)

\* C13 witness: a run has completed its third write, replacing the record of
\* its second epoch, and is about to enter the next epoch.
C13_Witness ==
    /\ pc = "for_epoch"
    /\ obs.saves = 3
    /\ start_epoch = 2
    /\ loader_len = 2
    /\ file.kind = "record"
    /\ file.data["epoch"] = 4
    /\ obs.writes[2].stored = 3

\* C14: the gradient optimizer_g.step() finds on the generator is that of the
\* generator-phase backward of the current batch alone, and the gradient
\* optimizer_d.step() finds on the discriminator is that of the
\* discriminator-phase backward of the current batch alone; each backward
\* starts from a cleared buffer of the model its optimizer steps.
C14_GradientHygiene ==
    /\ Position = "g_backward" => grads["generator"] = {}
    /\ Position = "g_step" => grads["generator"] = {<<"G", epoch, i>>}
    /\ Position = "d_backward" => grads["discriminator"] = {}
    /\ Position = "d_step" => grads["discriminator"] = {<<"D", epoch, i>>}

\* C14 witness: in the second batch of an epoch the discriminator step finds
\* only this batch's discriminator-phase gradient, although the discriminator
\* held the previous batch's gradient and this batch's generator-phase
\* gradient before its zero-grad.
C14_Witness ==
    /\ pc = "d_step"
    /\ i = 2
    /\ grads["discriminator"] = {<<"D", epoch, 2>>}
    /\ grads["generator"] = {<<"G", epoch, 2>>}
    /\ obs.steps_d >= 1

\* C15: a run inside its epoch loop never ends with an exception, also when
\* the loader yields no batch: every epoch it entered is logged and saved,
\* and with an empty loader no optimizer step is taken.
C15_EmptyEpochSaved ==
    /\ obs.entered # <<>> => err = "none"
    /\ pc = "done" => obs.saves = Len(obs.entered)
    /\ loader_len = 0 => (obs.steps_g = 0 /\ obs.steps_d = 0)

=============================================================================
